---- MODULE Spec2Model ----
(***************************************************************************)
(* A model of npm-blast-radius (src/src/index.js): the dependent-discovery *)
(* cascade fetchAllDependents with its three sources, the retrying fetch   *)
(* client (fetchJSON / fetchText), the version timeline builder and the    *)
(* blast-radius resolver.                                                  *)
(***************************************************************************)
EXTENDS Integers, Sequences, FiniteSets, TLC

(***************************************************************************)
(* Bounds of the model.                                                    *)
(***************************************************************************)
\* largest value of --max that is explored (0 = unlimited)
MaxCap == 2
\* longest page (results of one response) a source returns
MaxPageLen == 2
\* number of non-final pages one pagination loop is given by its source
MaxPages == 1

(***************************************************************************)
(* Names.  `name` is the target package; the others are candidate          *)
(* dependents.  NoName is an item without a usable name field.             *)
(***************************************************************************)
name == "t"
Dependents == {"a", "b"}
NoName == ""
PkgNames == Dependents \cup {name}
Items == PkgNames \cup {NoName}

NoSource == ""
Tags == <<"npms", "libraries", "scraped">>

Min(a, b) == IF a <= b THEN a ELSE b
MaxOf(a, b) == IF a >= b THEN a ELSE b

\* all sequences over S of length 0..n
SeqsUpTo(S, n) == UNION {[1..k -> S] : k \in 0..n}

Range(s) == {s[i] : i \in 1..Len(s)}

\* Set.prototype.has on an insertion-ordered set kept as a sequence
Has(s, x) == \E i \in 1..Len(s) : s[i] = x

VARIABLES
  \* ---- discovery (fetchAllDependents) ----
  includeDev, includePeer, max, noLibraries, noScrape, apiKey,
  pc,            \* where fetchAllDependents is suspended: the request in flight
  qi,            \* index of the current qualifier of the primary stage
  from,          \* offset cursor of the primary stage
  pages,         \* pages received so far in the current pagination loop
  seen,          \* the Set `seen`, in insertion order
  sourceByPkg,   \* the Map `sourceByPkg`
  stats,         \* the counters `stats`
  remaining,     \* the budget handed to the running fallback strategy
  out,           \* fetchDependentsFromLibrariesIO: `out`
  page,          \* fetchDependentsFromLibrariesIO: `page`
  results,       \* fetchDependentsFromNpmWebsite: `results`, in insertion order
  offered,       \* history: names each stage delivered to the aggregator
  requests,      \* history: requests issued to each fallback source
  invoked,       \* history: fallback strategies that were called
  primaryCount,  \* history: seen.size when the primary stage ended (-1 before)
  received,      \* history: the response the last step processed
  \* ---- fetch client (fetchJSON / fetchText) ----
  fn,            \* the function that runs: "fetchJSON" or "fetchText"
  retries,       \* its parameter `retries`
  attempt,       \* the loop variable `attempt`
  fpc,           \* "request": a request is in flight; "done": the call ended
  fresult,       \* how the call ended
  trace,         \* history: the outcomes of the requests issued so far
  \* ---- version timeline builder (listVersionDatesFromTimeMap) ----
  timeMap,       \* the argument: present or not, and its entries in key order
  tpc,           \* "input": not yet called; "built": the call returned
  versionDates,  \* the returned timeline
  \* ---- per-dependent analysis (processPackage, lines 548-620) ----
  targetVersionDates,  \* the target's timeline
  targetVersion,       \* the compromised version of the input row
  apc,                 \* "ready": the task has not run; "emitted": onRow was called
  input,               \* what the dependent's metadata gave the task
  resolvedAtRelease,   \* the local `resolvedAtRelease`
  resolvedNow,         \* the local `resolvedNow`
  row,                 \* the row handed to onRow
  \* ---- findDependencyRange ----
  pkgMeta,       \* the argument: dist-tags.latest and the versions in key order
  lpc,           \* "call": not yet called; "returned": the call returned
  declaration,   \* the returned object
  \* ---- main and processPackage: the run over the input rows ----
  concurrency,   \* args.concurrency, the argument of pLimit
  inputRows,     \* the number of rows of the input CSV
  current,       \* main's loop over inputRows: the index of the row in work
  phase,         \* where processPackage of that row is suspended
  dependents,    \* the names fetchAllDependents returned for that row
  task,          \* per dependent: where its task is
  outcome,       \* per dependent: how the try block of its task ended
  emitted,       \* per dependent: the rows its task handed to onRow
  activeCount,   \* pLimit: the tasks that were started and have not finished
  queue,         \* pLimit: the tasks that wait for a slot, in order
  count,         \* main: the rows written
  found,         \* history: per input row, the number of names discovered
  written,       \* history: per input row, the number of rows written
  quiet,         \* args.quiet
  progress,      \* args.progress || 25
  reported       \* history: `processed` of the last "processed k/N" line
                 \* logged for the row in work (0: none yet)

dvars == <<includeDev, includePeer, max, noLibraries, noScrape, apiKey, pc, qi,
           from, pages, seen, sourceByPkg, stats, remaining, out, page, results,
           offered, requests, invoked, primaryCount, received>>

fvars == <<fn, retries, attempt, fpc, fresult, trace>>

tvars == <<timeMap, tpc, versionDates>>

avars == <<targetVersionDates, targetVersion, apc, input, resolvedAtRelease,
           resolvedNow, row>>

lvars == <<pkgMeta, lpc, declaration>>

rvars == <<concurrency, inputRows, current, phase, dependents, task, outcome,
           emitted, activeCount, queue, count, found, written, quiet, progress,
           reported>>

vars == <<dvars, fvars, tvars, avars, lvars, rvars>>

(***************************************************************************)
(* fetchAllDependents                                                      *)
(***************************************************************************)
\* lines 246-248
qualifiers ==
  <<"dependencies">> \o (IF includeDev THEN <<"devDependencies">> ELSE <<>>)
                     \o (IF includePeer THEN <<"peerDependencies">> ELSE <<>>)

\* lines 270-279: the loop over one page of npms results
RECURSIVE NpmsMerge(_, _, _, _, _)
NpmsMerge(rs, i, s, sb, added) ==
  IF i > Len(rs) THEN [seen |-> s, sources |-> sb, added |-> added]
  ELSE LET pkg == rs[i] IN
    IF pkg = NoName \/ pkg = name THEN NpmsMerge(rs, i + 1, s, sb, added)
    ELSE LET new == ~Has(s, pkg)
             s2 == IF new THEN Append(s, pkg) ELSE s
             sb2 == IF new /\ sb[pkg] = NoSource
                    THEN [sb EXCEPT ![pkg] = "npms"] ELSE sb
             a2 == IF new THEN added + 1 ELSE added
         IN IF max # 0 /\ Len(s2) >= max
            THEN [seen |-> s2, sources |-> sb2, added |-> a2]
            ELSE NpmsMerge(rs, i + 1, s2, sb2, a2)

\* lines 293-300: the loop over the names the Libraries.io strategy returned
RECURSIVE LibrariesMerge(_, _, _, _, _)
LibrariesMerge(more, i, s, sb, added) ==
  IF i > Len(more) THEN [seen |-> s, sources |-> sb, added |-> added]
  ELSE LET pkg == more[i]
           new == ~Has(s, pkg)
           s2 == IF new THEN Append(s, pkg) ELSE s
           sb2 == IF new /\ sb[pkg] = NoSource
                  THEN [sb EXCEPT ![pkg] = "libraries"] ELSE sb
           a2 == IF new THEN added + 1 ELSE added
       IN IF max # 0 /\ Len(s2) >= max
          THEN [seen |-> s2, sources |-> sb2, added |-> a2]
          ELSE LibrariesMerge(more, i + 1, s2, sb2, a2)

\* faulty variant of ScrapeMerge: the tag is set without asking sourceByPkg.has
RECURSIVE ScrapeMergeRetag(_, _, _, _, _)
ScrapeMergeRetag(more, i, s, sb, added) ==
  IF i > Len(more) THEN [seen |-> s, sources |-> sb, added |-> added]
  ELSE LET pkg == more[i]
           new == ~Has(s, pkg)
           s2 == IF new THEN Append(s, pkg) ELSE s
           sb2 == [sb EXCEPT ![pkg] = "scraped"]
           a2 == IF new THEN added + 1 ELSE added
       IN IF max # 0 /\ Len(s2) >= max
          THEN [seen |-> s2, sources |-> sb2, added |-> a2]
          ELSE ScrapeMergeRetag(more, i + 1, s2, sb2, a2)

\* lines 315-322: the loop over the names the scrape strategy returned
RECURSIVE ScrapeMerge(_, _, _, _, _)
ScrapeMerge(more, i, s, sb, added) ==
  IF i > Len(more) THEN [seen |-> s, sources |-> sb, added |-> added]
  ELSE LET pkg == more[i]
           new == ~Has(s, pkg)
           s2 == IF new THEN Append(s, pkg) ELSE s
           sb2 == IF new /\ sb[pkg] = NoSource
                  THEN [sb EXCEPT ![pkg] = "scraped"] ELSE sb
           a2 == IF new THEN added + 1 ELSE added
       IN IF max # 0 /\ Len(s2) >= max
          THEN [seen |-> s2, sources |-> sb2, added |-> a2]
          ELSE ScrapeMerge(more, i + 1, s2, sb2, a2)

\* faulty variant of StageRuns: the cap test is off by one (<= for <)
StageRunsAtCap(disabled, size) ==
  ~disabled /\ (size = 0 \/ (max # 0 /\ size <= max))

\* line 288 and line 311: the condition under which a fallback stage runs
StageRuns(disabled, size) ==
  ~disabled /\ (size = 0 \/ (max # 0 /\ size < max))

\* lines 289 and 312
Remaining(size) == IF max # 0 THEN MaxOf(0, max - size) ELSE 0

\* line 327: the function returns (the locals of the strategies are gone)
Return(s, sb, st, inv) ==
  /\ pc' = "done"
  /\ seen' = s /\ sourceByPkg' = sb /\ stats' = st /\ invoked' = inv
  /\ remaining' = 0 /\ out' = <<>> /\ page' = 0 /\ results' = <<>> /\ pages' = 0

\* program constants of the two fallback strategies
ScrapeDefaultCap == 500
LibrariesPageLimit == 1000
ScrapeOffsetLimit == 50000
ScrapePageSize == 36
LibrariesPerPage == 100

\* faulty variant of AfterLibraries: the function returns when the
\* secondary stage has ended, whatever the scrape condition says
AfterLibrariesReturns(s, sb, st, inv, req) ==
  /\ requests' = req
  /\ Return(s, sb, st, inv)

\* lines 311-313 and 360-365: the scrape stage is entered (or skipped)
AfterLibraries(s, sb, st, inv, req) ==
  IF StageRuns(noScrape, Len(s))
  THEN \* fetchDependentsFromNpmWebsite(name, remaining || 500): the budget is
       \* positive, so the first page is requested
       /\ pc' = "scrape"
       /\ remaining' = (IF Remaining(Len(s)) # 0 THEN Remaining(Len(s))
                        ELSE ScrapeDefaultCap)
       /\ results' = <<>>
       /\ pages' = 0
       /\ requests' = [req EXCEPT !["scraped"] = @ + 1]
       /\ invoked' = inv \cup {"scraped"}
       /\ seen' = s /\ sourceByPkg' = sb /\ stats' = st
       /\ out' = <<>> /\ page' = 0
  ELSE /\ requests' = req
       /\ Return(s, sb, st, inv)

\* lines 288-291 and 331-338: the secondary stage is entered (or skipped)
AfterPrimary(s, sb, st) ==
  IF StageRuns(noLibraries, Len(s))
  THEN IF apiKey
       THEN \* the first page is requested
            /\ pc' = "libraries"
            /\ remaining' = Remaining(Len(s))
            /\ out' = <<>>
            /\ page' = 1
            /\ pages' = 0
            /\ requests' = [requests EXCEPT !["libraries"] = @ + 1]
            /\ invoked' = invoked \cup {"libraries"}
            /\ seen' = s /\ sourceByPkg' = sb /\ stats' = st
            /\ UNCHANGED results
       ELSE \* line 332: no key, the strategy returns [] and nothing is merged
            AfterLibraries(s, sb, st, invoked \cup {"libraries"}, requests)
  ELSE AfterLibraries(s, sb, st, invoked, requests)

\* What is kept of a processed response: the stage that asked, what came
\* ("throw": fetchJSON threw; "none": no body, or a body without items;
\* "page": a body with items; for the secondary source also "disabled",
\* "undefined" and "other") and, for a page of the primary source, whether
\* the offset has
\* reached the total the body reports.  The scrape stage's pages are not kept.
Received(stage, kind, atTotal) ==
  [stage |-> stage, kind |-> kind, atTotal |-> atTotal]
NoResponse == Received("none", "none", FALSE)

\* the names of a page that can become dependents
Named(rs) == Range(rs) \ {NoName}

\* The responses fetchJSON can hand to the primary loop: a body with its
\* results and total, an exception, or undefined.  total 0: the field is
\* absent; otherwise the total is given relative to the offset f the cursor
\* has after the page (the comparison of line 282 is all that reads it): f
\* itself (1) or one above (2).
NpmsResponses ==
  [kind : {"body"}, results : SeqsUpTo(Items, MaxPageLen), total : {0, 1, 2}]
    \cup [kind : {"throw", "undefined"}, results : {<<>>}, total : {0}]

\* line 282: Math.min(data.total || Infinity, max || Infinity)
Infinity == -1
FromLimit(total) ==
  IF total = 0 THEN (IF max = 0 THEN Infinity ELSE max)
  ELSE IF max = 0 THEN total ELSE Min(total, max)

\* a response that ends the pagination of a kind whatever the state
Final(r) == r.kind # "body" \/ r.results = <<>>

\* faulty variant of NextQualifier: the break leaves the loop over the
\* kinds too
NextQualifierLeaves(s, sb, st) ==
  /\ primaryCount' = Len(s)
  /\ qi' = 0 /\ from' = 0
  /\ AfterPrimary(s, sb, st)

\* lines 252-286: the kind's pagination ends
NextQualifier(s, sb, st) ==
  IF qi < Len(qualifiers)
  THEN /\ qi' = qi + 1
       /\ from' = 0
       /\ pages' = 0
       /\ pc' = "npms"
       /\ seen' = s /\ sourceByPkg' = sb /\ stats' = st
       /\ UNCHANGED <<remaining, out, page, results, invoked, requests, primaryCount>>
  ELSE /\ primaryCount' = Len(s)
       /\ qi' = 0 /\ from' = 0
       /\ AfterPrimary(s, sb, st)

\* lines 254-285: one response of the primary source is processed
NpmsPage ==
  /\ pc = "npms"
  /\ \E r \in NpmsResponses :
       /\ pages >= MaxPages => Final(r)
       /\ IF Final(r)
          THEN \* lines 259-262 (catch: break) and line 268 (no results: break)
               /\ offered' = offered
               /\ received' = Received("npms",
                                        IF r.kind = "throw" THEN "throw" ELSE "none",
                                        FALSE)
               /\ NextQualifier(seen, sourceByPkg, stats)
          ELSE LET m == NpmsMerge(r.results, 1, seen, sourceByPkg, 0)
                   st == [stats EXCEPT !.npms = @ + m.added]
                   f == from + Len(r.results)
                   capped == max # 0 /\ Len(m.seen) >= max
                   total == IF r.total = 0 THEN 0 ELSE f + r.total - 1
                   limit == FromLimit(total)
               IN /\ offered' = [offered EXCEPT !["npms"] = @ \cup (Named(r.results) \ {name})]
                  /\ received' = Received("npms", "page", total # 0 /\ f >= total)
                  /\ IF (limit # Infinity /\ f >= limit) \/ capped
                     THEN NextQualifier(m.seen, m.sources, st)
                     ELSE /\ from' = f
                          /\ pages' = pages + 1
                          /\ seen' = m.seen /\ sourceByPkg' = m.sources /\ stats' = st
                          /\ UNCHANGED <<pc, qi, remaining, out, page, results,
                                         invoked, requests, primaryCount>>
  /\ UNCHANGED <<includeDev, includePeer, max, noLibraries, noScrape, apiKey>>
  /\ UNCHANGED <<fvars, tvars, avars, lvars, rvars>>

\* The responses fetchJSON can hand to fetchDependentsFromLibrariesIO: an
\* array of items, the feature-disabled object, undefined (what fetchJSON
\* returns when its last attempt was answered 429), any other non-array
\* value, or an exception.
LibrariesResponses ==
  [kind : {"array"}, items : SeqsUpTo(Items, MaxPageLen)]
    \cup [kind : {"disabled", "undefined", "other", "throw"}, items : {<<>>}]

\* lines 347-351: the names of one page are pushed to `out`
RECURSIVE LibrariesPush(_, _, _)
LibrariesPush(data, i, o) ==
  IF i > Len(data) THEN o
  ELSE LET pkg == data[i]
           o2 == IF pkg # NoName THEN Append(o, pkg) ELSE o
       IN IF remaining # 0 /\ Len(o2) >= remaining THEN o2
          ELSE LibrariesPush(data, i + 1, o2)

\* lines 291-305: the strategy returned `more`; it is merged
LibrariesReturned(more) ==
  LET m == LibrariesMerge(more, 1, seen, sourceByPkg, 0)
  IN /\ offered' = [offered EXCEPT !["libraries"] = @ \cup Range(more)]
     /\ AfterLibraries(m.seen, m.sources,
                       [stats EXCEPT !.libraries = @ + m.added], invoked, requests)

\* lines 335-353: one response of the secondary source is processed
LibrariesPage ==
  /\ pc = "libraries"
  /\ \E r \in LibrariesResponses :
       /\ pages >= MaxPages => (r.kind # "array" \/ r.items = <<>>)
       /\ received' = Received("libraries",
                                IF r.kind # "array" THEN r.kind
                                ELSE IF r.items = <<>> THEN "none" ELSE "page",
                                FALSE)
       /\ CASE r.kind \in {"throw", "disabled"} ->
                 \* line 338 or line 342 throws; lines 306-308 catch it
                 /\ offered' = offered
                 /\ AfterLibraries(seen, sourceByPkg, stats, invoked, requests)
            [] r.kind \in {"undefined", "other"}
                 \/ (r.kind = "array" /\ r.items = <<>>) ->
                 \* line 344 or line 346: break
                 LibrariesReturned(out)
            [] OTHER ->
                 LET o == LibrariesPush(r.items, 1, out)
                 IN IF page + 1 < LibrariesPageLimit
                       /\ ~(remaining # 0 /\ Len(o) >= remaining)
                    THEN /\ out' = o
                         /\ page' = page + 1
                         /\ pages' = pages + 1
                         /\ requests' = [requests EXCEPT !["libraries"] = @ + 1]
                         /\ UNCHANGED <<pc, seen, sourceByPkg, stats, remaining,
                                        results, offered, invoked>>
                    ELSE LibrariesReturned(o)
  /\ UNCHANGED <<includeDev, includePeer, max, noLibraries, noScrape, apiKey,
                 qi, from, primaryCount>>
  /\ UNCHANGED <<fvars, tvars, avars, lvars, rvars>>

\* anchors of the npm website that are no packages (line 375)
NavNames == {"login"}
Anchors == PkgNames \cup NavNames

\* The responses fetchText can hand to fetchDependentsFromNpmWebsite: a page
\* with its package-link anchors, the empty string, or undefined.
ScrapeResponses ==
  [kind : {"html"}, anchors : SeqsUpTo(Anchors, MaxPageLen)]
    \cup [kind : {"empty", "undefined"}, anchors : {<<>>}]

\* lines 370-378: the anchors of one page are added to `results`
RECURSIVE ScrapeAdd(_, _, _)
ScrapeAdd(as, i, rs) ==
  IF i > Len(as) THEN rs
  ELSE LET pkg == as[i] IN
    IF pkg = name \/ pkg \in NavNames THEN ScrapeAdd(as, i + 1, rs)
    ELSE LET rs2 == IF Has(rs, pkg) THEN rs ELSE Append(rs, pkg)
         IN IF remaining # 0 /\ Len(rs2) >= remaining THEN rs2
            ELSE ScrapeAdd(as, i + 1, rs2)

\* lines 313-327: the strategy returned `more`; it is merged and the
\* function returns
ScrapeReturned(more) ==
  LET m == ScrapeMerge(more, 1, seen, sourceByPkg, 0)
  IN /\ offered' = [offered EXCEPT !["scraped"] = @ \cup Range(more)]
     /\ requests' = requests
     /\ Return(m.seen, m.sources, [stats EXCEPT !.scraped = @ + m.added], invoked)

\* lines 362-381: one response of the npm website is processed
ScrapePage ==
  /\ pc = "scrape"
  /\ \E r \in ScrapeResponses :
       /\ pages >= MaxPages => r.kind # "html"
       /\ received' = NoResponse
       /\ IF r.kind # "html"
          THEN \* line 366: no html, break
               ScrapeReturned(results)
          ELSE LET rs == ScrapeAdd(r.anchors, 1, results)
               IN IF Len(rs) # Len(results)
                     /\ (pages + 1) * ScrapePageSize < ScrapeOffsetLimit
                     /\ ~(remaining # 0 /\ Len(rs) >= remaining)
                  THEN /\ results' = rs
                       /\ pages' = pages + 1
                       /\ requests' = [requests EXCEPT !["scraped"] = @ + 1]
                       /\ UNCHANGED <<pc, seen, sourceByPkg, stats, remaining,
                                      out, page, offered, invoked>>
                  ELSE \* line 379 (no progress), line 362 or line 363
                       ScrapeReturned(rs)
  /\ UNCHANGED <<includeDev, includePeer, max, noLibraries, noScrape, apiKey,
                 qi, from, primaryCount>>
  /\ UNCHANGED <<fvars, tvars, avars, lvars, rvars>>

DiscoveryInit ==
  /\ includeDev \in BOOLEAN /\ includePeer \in BOOLEAN
  /\ max \in 0..MaxCap
  /\ noLibraries \in BOOLEAN /\ noScrape \in BOOLEAN /\ apiKey \in BOOLEAN
  /\ pc = "npms" /\ qi = 1 /\ from = 0 /\ pages = 0
  /\ seen = <<>>
  /\ sourceByPkg = [p \in PkgNames |-> NoSource]
  /\ stats = [npms |-> 0, libraries |-> 0, scraped |-> 0]
  /\ remaining = 0 /\ out = <<>> /\ page = 0 /\ results = <<>>
  /\ offered = [t \in Range(Tags) |-> {}]
  /\ requests = [t \in {"libraries", "scraped"} |-> 0]
  /\ invoked = {}
  /\ primaryCount = -1
  /\ received = NoResponse

\* fetchAllDependents is not running
DiscoveryStopped ==
  /\ max = 0
  /\ noLibraries = FALSE /\ noScrape = FALSE /\ apiKey = FALSE
  /\ pc = "idle" /\ qi = 0 /\ from = 0 /\ pages = 0
  /\ seen = <<>>
  /\ sourceByPkg = [p \in PkgNames |-> NoSource]
  /\ stats = [npms |-> 0, libraries |-> 0, scraped |-> 0]
  /\ remaining = 0 /\ out = <<>> /\ page = 0 /\ results = <<>>
  /\ offered = [t \in Range(Tags) |-> {}]
  /\ requests = [t \in {"libraries", "scraped"} |-> 0]
  /\ invoked = {}
  /\ primaryCount = -1
  /\ received = NoResponse

\* neither is any caller that holds the two flags
DiscoveryIdle == includeDev = FALSE /\ includePeer = FALSE /\ DiscoveryStopped

(***************************************************************************)
(* fetchJSON and fetchText                                                 *)
(***************************************************************************)
\* largest `retries` explored (every caller passes 3)
MaxRetries == 3

\* What one request can come to: a connection failure or timeout (fetch
\* throws), a 429 response, another non-2xx response, a 2xx response.
Outcomes == {"fail", "429", "status", "ok"}

\* The for statement's update (attempt++) and test (attempt <= retries), run
\* after `continue` and after the end of the body alike.  When the test
\* fails the loop ends and the function ends without a return statement.
NextAttempt ==
  /\ attempt' = attempt + 1
  /\ IF attempt + 1 <= retries
     THEN fpc' = "request" /\ fresult' = fresult
     ELSE fpc' = "done" /\ fresult' = "undefined"

\* the call ends: a value is returned or an error is thrown
Ends(how) == fpc' = "done" /\ fresult' = how /\ attempt' = attempt

\* faulty variant of FetchJSONAttempt: a 429 is retried with the attempt
\* number unchanged
FetchJSONAttemptHolds(o) ==
  CASE o = "fail" ->
         IF attempt = retries THEN Ends("error") ELSE NextAttempt
    [] o = "429" ->
         fpc' = "request" /\ fresult' = fresult /\ attempt' = attempt
    [] o = "ok" ->
         Ends("body")
    [] o = "status" ->
         IF attempt = retries THEN Ends("error") ELSE NextAttempt

\* lines 99-143: one pass through the loop body of fetchJSON
FetchJSONAttempt(o) ==
  CASE o = "fail" ->   \* lines 119-123
         IF attempt = retries THEN Ends("error") ELSE NextAttempt
    [] o = "429" ->    \* lines 128-132
         NextAttempt
    [] o = "ok" ->     \* lines 134-136
         Ends("body")
    [] o = "status" -> \* lines 138-142
         IF attempt = retries THEN Ends("error") ELSE NextAttempt

\* lines 386-416: one pass through the loop body of fetchText
FetchTextAttempt(o) ==
  CASE o = "fail" ->   \* lines 398-404
         IF attempt = retries THEN Ends("empty") ELSE NextAttempt
    [] o = "429" ->    \* lines 408-412
         NextAttempt
    [] o = "ok" ->     \* line 413
         Ends("text")
    [] o = "status" -> \* lines 414-415
         IF attempt = retries THEN Ends("empty") ELSE NextAttempt

FetchJSON ==
  /\ fn = "fetchJSON" /\ fpc = "request"
  /\ \E o \in Outcomes : FetchJSONAttempt(o) /\ trace' = Append(trace, o)
  /\ UNCHANGED <<fn, retries, dvars, tvars, avars, lvars, rvars>>

FetchText ==
  /\ fn = "fetchText" /\ fpc = "request"
  /\ \E o \in Outcomes : FetchTextAttempt(o) /\ trace' = Append(trace, o)
  /\ UNCHANGED <<fn, retries, dvars, tvars, avars, lvars, rvars>>

\* the call starts: attempt = 0 passes the loop test for every retries >= 0
FetchInit ==
  /\ fn \in {"fetchJSON", "fetchText"}
  /\ retries \in 0..MaxRetries
  /\ attempt = 0 /\ fpc = "request" /\ fresult = "none" /\ trace = <<>>

FetchIdle ==
  /\ fn = "none" /\ retries = 0 /\ attempt = 0 /\ fpc = "idle"
  /\ fresult = "none" /\ trace = <<>>

\* requests that used up a retry slot according to section 4.1: connection
\* failures and non-2xx, non-429 responses
RECURSIVE Count(_, _)
Count(s, S) ==
  IF s = <<>> THEN 0
  ELSE (IF Head(s) \in S THEN 1 ELSE 0) + Count(Tail(s), S)

failures == Count(trace, {"fail", "status"})

(***************************************************************************)
(* Strings that are read as versions or ranges, and the npm semver calls   *)
(* the program makes on them.  A string is kept as what semver reads in    *)
(* it: a word without digits ("latest", "*", "created"), or an operator    *)
(* prefix, one to three numeric parts and a prerelease suffix.             *)
(***************************************************************************)
Str(word, op, parts, pre) ==
  [word |-> word, op |-> op, parts |-> parts, pre |-> pre]
Word(w) == Str(w, "", <<>>, "")
Plain(parts) == Str("", "", parts, "")
EmptyStr == Word("")

\* null, and a version M.m.p as semver normalises it
Null == <<>>

\* semver.coerce(s), and .version of the result: the first run of digits
\* with up to two further dotted parts, missing parts 0, operator prefix and
\* prerelease dropped; null when the string has no digit
Coerce(s) ==
  IF Len(s.parts) = 0 THEN Null
  ELSE <<s.parts[1],
         IF Len(s.parts) >= 2 THEN s.parts[2] ELSE 0,
         IF Len(s.parts) >= 3 THEN s.parts[3] ELSE 0>>

\* SemVer.compare on normalised versions: -1, 0, 1
Compare(a, b) ==
  IF a[1] # b[1] THEN (IF a[1] < b[1] THEN -1 ELSE 1)
  ELSE IF a[2] # b[2] THEN (IF a[2] < b[2] THEN -1 ELSE 1)
  ELSE IF a[3] # b[3] THEN (IF a[3] < b[3] THEN -1 ELSE 1)
  ELSE 0

\* new Range(r) does not throw
ValidRange(r) == r.word \in {"", "*"}

\* the exclusive upper bound of a caret, tilde or x-range, as semver sets it
UpperBound(r) ==
  LET n == Len(r.parts)
      v == Coerce(r)
  IN IF r.op = "^"
     THEN IF v[1] > 0 \/ n = 1 THEN <<v[1] + 1, 0, 0>>
          ELSE IF v[2] > 0 \/ n = 2 THEN <<0, v[2] + 1, 0>>
          ELSE <<0, 0, v[3] + 1>>
     ELSE \* "~" and the x-ranges 1 and 1.2
          IF n = 1 THEN <<v[1] + 1, 0, 0>> ELSE <<v[1], v[2] + 1, 0>>

\* Range.test(v) for a version v without prerelease: the range is *, an
\* exact version, an x-range, or a caret, tilde or >= comparator
Test(v, r) ==
  IF Len(r.parts) = 0 THEN TRUE     \* "" and "*"
  ELSE LET lo == Coerce(r) IN
    CASE r.op = ">=" -> Compare(v, lo) >= 0
      [] r.op \in {"^", "~"} ->
           Compare(v, lo) >= 0 /\ Compare(v, UpperBound(r)) < 0
      [] OTHER ->              \* "", "=", "v"
           IF Len(r.parts) = 3 THEN Compare(v, lo) = 0
           ELSE Compare(v, lo) >= 0 /\ Compare(v, UpperBound(r)) < 0

\* semver.maxSatisfying(versions, range, { includePrerelease: true }): null
\* for an invalid range, else the loop that keeps the greatest version the
\* range admits
RECURSIVE MaxSatisfyingFrom(_, _, _, _)
MaxSatisfyingFrom(versions, i, r, best) ==
  IF i > Len(versions) THEN best
  ELSE LET v == versions[i]
           b == IF Test(v, r) /\ (best = Null \/ Compare(best, v) = -1)
                THEN v ELSE best
       IN MaxSatisfyingFrom(versions, i + 1, r, b)

MaxSatisfying(versions, r) ==
  IF ~ValidRange(r) THEN Null ELSE MaxSatisfyingFrom(versions, 1, r, Null)

(***************************************************************************)
(* toDateSafe and listVersionDatesFromTimeMap                              *)
(***************************************************************************)
\* latest publish instant explored
MaxDate == 3
\* longest raw time map explored
MaxEntries == 3

\* A timestamp string: an ISO date (of instant t), text that does not parse,
\* or the empty string.
Iso(t) == [text |-> "iso", t |-> t]
Garbage == [text |-> "garbage", t |-> 0]
EmptyTime == [text |-> "", t |-> 0]

\* a Date, or null
DateOf(t) == [valid |-> TRUE, time |-> t]
NoDate == [valid |-> FALSE, time |-> 0]

\* lines 161-169
toDateSafe(s) ==
  IF s.text = "" THEN NoDate
  ELSE IF s.text = "iso" THEN DateOf(s.t) ELSE NoDate

\* lines 175-180: the entries that are versions with a date
RECURSIVE Collect(_, _)
Collect(entries, i) ==
  IF i > Len(entries) THEN <<>>
  ELSE LET k == entries[i].k
           v == entries[i].v
           rest == Collect(entries, i + 1)
       IN IF k.word = "created" \/ k.word = "modified" THEN rest
          ELSE IF Coerce(k) = Null THEN rest
          ELSE IF toDateSafe(v).valid
               THEN <<[version |-> Coerce(k), date |-> toDateSafe(v).time]>> \o rest
               ELSE rest

\* lines 182-189: the first entry of each normalised version
RECURSIVE Dedup(_, _, _)
Dedup(o, i, acc) ==
  IF i > Len(o) THEN acc
  ELSE IF \E j \in 1..Len(acc) : acc[j].version = o[i].version
       THEN Dedup(o, i + 1, acc)
       ELSE Dedup(o, i + 1, Append(acc, o[i]))

\* faulty variant of SortByDate: the sort is left out
Unsorted(d) == d

\* line 191: Array.prototype.sort by (a, b) => a.date - b.date, a stable sort
RECURSIVE SortByDate(_)
SortByDate(d) ==
  IF Len(d) <= 1 THEN d
  ELSE LET init == SortByDate(SubSeq(d, 1, Len(d) - 1))
           x == d[Len(d)]
           n == Cardinality({j \in 1..Len(init) : init[j].date <= x.date})
       IN SubSeq(init, 1, n) \o <<x>> \o SubSeq(init, n + 1, Len(init))

\* lines 171-193
listVersionDatesFromTimeMap(tm) ==
  IF ~tm.present THEN <<>>
  ELSE SortByDate(Dedup(Collect(tm.entries, 1), 1, <<>>))

\* The keys of a registry time map: the two bookkeeping keys, a key that is
\* no version, and versions, two of which normalise to 1.0.0.
TimeKeys ==
  {Word("created"), Word("modified"), Word("unpublished"),
   Plain(<<1, 0, 0>>), Str("", "", <<1, 0, 0>>, "beta"), Plain(<<2, 0, 0>>)}
TimeValues == {Iso(t) : t \in 1..MaxDate} \cup {Garbage}

\* the raw time maps: up to MaxEntries entries with distinct keys, in the
\* order Object.entries gives them; or no map at all
TimeMaps ==
  {[present |-> FALSE, entries |-> <<>>]} \cup
  {[present |-> TRUE, entries |-> es] :
     es \in {e \in SeqsUpTo([k : TimeKeys, v : TimeValues], MaxEntries) :
               \A i, j \in 1..Len(e) : e[i].k = e[j].k => i = j}}

BuildTimeline ==
  /\ tpc = "input"
  /\ versionDates' = listVersionDatesFromTimeMap(timeMap)
  /\ tpc' = "built"
  /\ UNCHANGED <<timeMap, dvars, fvars, avars, lvars, rvars>>

TimelineInit ==
  /\ timeMap \in TimeMaps /\ tpc = "input" /\ versionDates = <<>>

TimelineIdle ==
  /\ timeMap = [present |-> FALSE, entries |-> <<>>] /\ tpc = "idle"
  /\ versionDates = <<>>

(***************************************************************************)
(* The blast-radius resolver and the per-dependent task of processPackage  *)
(***************************************************************************)
\* the versions of entries i.. of a timeline published at or before `time`
RECURSIVE CandidatesFrom(_, _, _)
CandidatesFrom(vds, i, time) ==
  IF i > Len(vds) THEN <<>>
  ELSE (IF vds[i].date <= time THEN <<vds[i].version>> ELSE <<>>)
         \o CandidatesFrom(vds, i + 1, time)

\* faulty variant of maxSatisfyingAtOrBefore: the date filter is strict (< for <=)
maxSatisfyingBefore(vds, range, atDate) ==
  IF range = EmptyStr \/ ~atDate.valid THEN Null
  ELSE LET candidates == CandidatesFrom(vds, 1, atDate.time - 1)
       IN IF Len(candidates) = 0 THEN Null
          ELSE MaxSatisfying(candidates, range)

\* lines 195-204
maxSatisfyingAtOrBefore(vds, range, atDate) ==
  IF range = EmptyStr \/ ~atDate.valid THEN Null
  ELSE LET candidates == CandidatesFrom(vds, 1, atDate.time)
       IN IF Len(candidates) = 0 THEN Null
          ELSE MaxSatisfying(candidates, range)

\* faulty variant of maxSatisfyingNow: only the first version of the list is
\* offered to semver
maxSatisfyingNowFirst(versions, range) ==
  IF range = EmptyStr \/ Len(versions) = 0 THEN Null
  ELSE MaxSatisfying(<<versions[1]>>, range)

\* lines 206-213
maxSatisfyingNow(versions, range) ==
  IF range = EmptyStr \/ Len(versions) = 0 THEN Null
  ELSE MaxSatisfying(versions, range)

\* lines 215-226
isExactPin(range, compromisedVersion) ==
  IF range = EmptyStr THEN FALSE
  ELSE LET v == Coerce(range) IN
    IF v = Null THEN FALSE
    ELSE IF compromisedVersion # EmptyStr /\ Coerce(compromisedVersion) # Null
         THEN Compare(v, Coerce(compromisedVersion)) = 0
         ELSE TRUE

\* faulty variant of satisfies: the version is tested as written, without
\* semver.coerce, so a prerelease lies below the release every range here
\* starts from
satisfiesRaw(version, range) ==
  IF version = EmptyStr \/ range = EmptyStr THEN FALSE
  ELSE IF Coerce(version) = Null \/ ~ValidRange(range) THEN FALSE
  ELSE IF version.pre # "" THEN Len(range.parts) = 0
  ELSE Test(Coerce(version), range)

\* lines 497-504
satisfies(version, range) ==
  IF version = EmptyStr \/ range = EmptyStr THEN FALSE
  ELSE IF Coerce(version) = Null \/ ~ValidRange(range) THEN FALSE
  ELSE Test(Coerce(version), range)

\* lines 570 and 575: semver.eq throws (a TypeError) when it is reached with
\* a compromised version that does not coerce
EqThrows(resolved, compromisedVersion) ==
  /\ resolved # Null /\ compromisedVersion # EmptyStr
  /\ Coerce(compromisedVersion) = Null

\* faulty variant of Impacted: the strings are compared without coercion
ImpactedRaw(resolved, compromisedVersion) ==
  /\ resolved # Null /\ compromisedVersion # EmptyStr
  /\ Plain(resolved) = compromisedVersion

\* lines 567-571 and 572-576, when semver.eq does not throw
Impacted(resolved, compromisedVersion) ==
  /\ resolved # Null /\ compromisedVersion # EmptyStr
  /\ Coerce(compromisedVersion) # Null
  /\ Compare(Coerce(Plain(resolved)), Coerce(compromisedVersion)) = 0

\* `v || ''` for a resolved version
OrEmpty(v) == IF v = Null THEN EmptyStr ELSE Plain(v)

\* lines 599-619
ErrorRow ==
  [source_version |-> targetVersion,
   dependent_version_range |-> EmptyStr,
   source_version_satisfies |-> FALSE,
   resolved_at_dependent_release |-> EmptyStr,
   resolved_now |-> EmptyStr,
   likely_impacted_at_release |-> FALSE,
   still_impacted_now |-> FALSE,
   uses_exact_pin |-> FALSE,
   error |-> TRUE]

\* lines 578-597
SuccessRow(range, atRelease, now) ==
  [source_version |-> targetVersion,
   dependent_version_range |-> range,
   source_version_satisfies |->
     (IF range # EmptyStr THEN satisfies(targetVersion, range) ELSE FALSE),
   resolved_at_dependent_release |-> OrEmpty(atRelease),
   resolved_now |-> OrEmpty(now),
   likely_impacted_at_release |-> Impacted(atRelease, targetVersion),
   still_impacted_now |-> Impacted(now, targetVersion),
   uses_exact_pin |-> isExactPin(range, targetVersion),
   error |-> FALSE]

\* the versions the target publishes, and the ranges dependents declare
TargetVersions == {<<1, 0, 0>>, <<1, 1, 0>>, <<2, 0, 0>>}
Ranges ==
  {Plain(<<1, 0, 0>>), Plain(<<1, 1, 0>>), Plain(<<1>>),
   Str("", "^", <<1, 0, 0>>, ""), Str("", "^", <<1, 1, 0>>, ""),
   Str("", "~", <<1, 0, 0>>, ""), Str("", ">=", <<1, 1, 0>>, ""),
   Word("*"), Word("latest")}
\* the version column of the input CSV: empty, a version, a version with a
\* v prefix or a prerelease, a word
SourceVersions ==
  {EmptyStr, Plain(<<1, 0, 0>>), Plain(<<1, 1, 0>>),
   Str("", "v", <<1, 1, 0>>, ""), Str("", "", <<1, 0, 0>>, "beta"),
   Word("latest")}

\* the timelines listVersionDatesFromTimeMap can return for the target
Timelines ==
  {tl \in SeqsUpTo([version : TargetVersions, date : 1..MaxDate],
                   Cardinality(TargetVersions)) :
     /\ \A i, j \in 1..Len(tl) : tl[i].version = tl[j].version => i = j
     /\ \A i, j \in 1..Len(tl) : i <= j => tl[i].date <= tl[j].date}

\* What the dependent's metadata gives the task: whether the fetch of line
\* 549 succeeded, the range findDependencyRange found (EmptyStr: null; null
\* and '' go the same way wherever the range is read), whether
\* depVersionToUse is non-empty (it is when a range was found) and the time
\* map's value for that version ('' when it has none).
Inputs ==
  {i \in [fetched : BOOLEAN, range : Ranges \cup {EmptyStr},
          hasVersion : BOOLEAN,
          time : {Iso(t) : t \in 0..MaxDate} \cup {Garbage, EmptyTime}] :
     /\ i.range # EmptyStr => i.hasVersion
     /\ ~i.fetched => (i.range = EmptyStr /\ ~i.hasVersion /\ i.time = EmptyTime)
     /\ ~i.hasVersion => i.time = EmptyTime}

\* lines 548-620: the task of one dependent, up to its call of onRow
AnalyseDependent ==
  /\ apc = "ready"
  /\ \E i \in Inputs :
       /\ input' = i
       /\ IF ~i.fetched
          THEN \* line 549 throws; lines 598-620
               /\ resolvedAtRelease' = Null /\ resolvedNow' = Null
               /\ row' = ErrorRow
          ELSE LET range == i.range
                   \* line 556
                   dependentPublishedAt ==
                     IF i.hasVersion THEN i.time ELSE EmptyTime
                   \* lines 559-562
                   atRelease ==
                     IF range # EmptyStr /\ i.hasVersion
                        /\ Len(targetVersionDates) > 0
                     THEN maxSatisfyingAtOrBefore(targetVersionDates, range,
                                                  toDateSafe(dependentPublishedAt))
                     ELSE Null
                   \* line 527
                   targetAllVersions ==
                     [n \in 1..Len(targetVersionDates) |->
                        targetVersionDates[n].version]
                   \* lines 563-566
                   now ==
                     IF range # EmptyStr /\ Len(targetAllVersions) > 0
                     THEN maxSatisfyingNow(targetAllVersions, range)
                     ELSE Null
               IN /\ resolvedAtRelease' = atRelease /\ resolvedNow' = now
                  /\ IF EqThrows(atRelease, targetVersion)
                        \/ EqThrows(now, targetVersion)
                     THEN row' = ErrorRow
                     ELSE row' = SuccessRow(range, atRelease, now)
  /\ apc' = "emitted"
  /\ UNCHANGED <<targetVersionDates, targetVersion, dvars, fvars, tvars, lvars,
                 rvars>>

NoInput ==
  [fetched |-> FALSE, range |-> EmptyStr, hasVersion |-> FALSE, time |-> EmptyTime]

AnalysisInit ==
  /\ targetVersionDates \in Timelines
  /\ targetVersion \in SourceVersions
  /\ apc = "ready" /\ input = NoInput
  /\ resolvedAtRelease = Null /\ resolvedNow = Null
  /\ row = ErrorRow

AnalysisIdle ==
  /\ targetVersionDates = <<>> /\ targetVersion = EmptyStr
  /\ apc = "idle" /\ input = NoInput
  /\ resolvedAtRelease = Null /\ resolvedNow = Null
  /\ row = [source_version |-> EmptyStr,
            dependent_version_range |-> EmptyStr,
            source_version_satisfies |-> FALSE,
            resolved_at_dependent_release |-> EmptyStr,
            resolved_now |-> EmptyStr,
            likely_impacted_at_release |-> FALSE,
            still_impacted_now |-> FALSE,
            uses_exact_pin |-> FALSE,
            error |-> FALSE]

(***************************************************************************)
(* findDependencyRange                                                     *)
(***************************************************************************)
\* most versions of one dependent explored
MaxVersions == 2

\* What a manifest holds for the target under one kind: nothing, or a range
\* string, which can be the empty string (npm reads "" as any version).
NotDeclared == [has |-> FALSE, range |-> EmptyStr]
Declared(r) == [has |-> TRUE, range |-> r]

\* `man.dependencies?.[targetName]` as a condition: an entry that is there
\* and is not the empty string
Truthy(d) == d.has /\ d.range # EmptyStr

\* the manifests of a dependent: the target under each of the three kinds
Manifests ==
  [dependencies : {NotDeclared, Declared(EmptyStr),
                   Declared(Str("", "^", <<1, 0, 0>>, "")),
                   Declared(Plain(<<1, 1, 0>>))},
   peerDependencies : {NotDeclared, Declared(Str("", ">=", <<1, 1, 0>>, ""))},
   devDependencies : {NotDeclared, Declared(Str("", "~", <<1, 0, 0>>, ""))}]

\* the version keys of a dependent, one of them a prerelease
VersionKeys ==
  {Plain(<<1, 0, 0>>), Str("", "", <<2, 0, 0>>, "beta"), Plain(<<2, 0, 0>>)}

\* The metadata findDependencyRange reads: dist-tags.latest ('' when there
\* is none; it can name a version that `versions` does not hold) and the
\* versions with their manifests, in the order Object.keys gives them.
PkgMetas ==
  [latest : VersionKeys \cup {EmptyStr},
   versions : {vs \in SeqsUpTo([v : VersionKeys, man : Manifests], MaxVersions) :
                 \A i, j \in 1..Len(vs) : vs[i].v = vs[j].v => i = j}]

\* the result for no declaration (lines 488-494), and for a hit
NoDeclaration(latestTag) ==
  [range |-> NotDeclared, latestVersion |-> latestTag, isDev |-> FALSE,
   dependencyType |-> "null", matchedVersion |-> EmptyStr]

\* lines 426-449 and 463-486: the three tests on one manifest, in order
DeclaredIn(man, v, latestTag) ==
  IF Truthy(man.dependencies)
  THEN [range |-> man.dependencies, latestVersion |-> latestTag,
        isDev |-> FALSE, dependencyType |-> "dep", matchedVersion |-> v]
  ELSE IF includePeer /\ Truthy(man.peerDependencies)
  THEN [range |-> man.peerDependencies, latestVersion |-> latestTag,
        isDev |-> FALSE, dependencyType |-> "peer", matchedVersion |-> v]
  ELSE IF includeDev /\ Truthy(man.devDependencies)
  THEN [range |-> man.devDependencies, latestVersion |-> latestTag,
        isDev |-> TRUE, dependencyType |-> "dev", matchedVersion |-> v]
  ELSE NoDeclaration(latestTag)

\* lines 453-459: Array.prototype.sort (stable) by
\* semver.rcompare(semver.coerce(a), semver.coerce(b)): descending by the
\* coerced version, keys that coerce to the same version in key order
RECURSIVE SortNewestFirst(_)
SortNewestFirst(vs) ==
  IF Len(vs) <= 1 THEN vs
  ELSE LET init == SortNewestFirst(SubSeq(vs, 1, Len(vs) - 1))
           x == vs[Len(vs)]
           n == Cardinality({j \in 1..Len(init) :
                               Compare(Coerce(init[j].v), Coerce(x.v)) >= 0})
       IN SubSeq(init, 1, n) \o <<x>> \o SubSeq(init, n + 1, Len(init))

\* lines 460-487: the scan of the sorted versions
RECURSIVE Scan(_, _, _)
Scan(sorted, i, latestTag) ==
  IF i > Len(sorted) THEN NoDeclaration(latestTag)
  ELSE LET d == DeclaredIn(sorted[i].man, sorted[i].v, latestTag)
       IN IF d.dependencyType # "null" THEN d
          ELSE Scan(sorted, i + 1, latestTag)

\* lines 419-495, with targetName = name and the flags of the run
findDependencyRange(meta) ==
  LET latestTag == meta.latest
      at == {i \in 1..Len(meta.versions) :
               latestTag # EmptyStr /\ meta.versions[i].v = latestTag}
      first == IF at = {} THEN NoDeclaration(latestTag)
               ELSE DeclaredIn(meta.versions[CHOOSE i \in at : TRUE].man,
                               latestTag, latestTag)
  IN IF first.dependencyType # "null" THEN first
     ELSE Scan(SortNewestFirst(meta.versions), 1, latestTag)

Locate ==
  /\ lpc = "call"
  /\ declaration' = findDependencyRange(pkgMeta)
  /\ lpc' = "returned"
  /\ UNCHANGED <<pkgMeta, dvars, fvars, tvars, avars, rvars>>

LocateInit ==
  /\ pkgMeta \in PkgMetas /\ lpc = "call"
  /\ declaration = NoDeclaration(EmptyStr)

LocateIdle ==
  /\ pkgMeta = [latest |-> EmptyStr, versions |-> <<>>] /\ lpc = "idle"
  /\ declaration = NoDeclaration(EmptyStr)

(***************************************************************************)
(* main and processPackage: the input rows one after another, and for each *)
(* the pool of per-dependent tasks run through pLimit(args.concurrency)    *)
(***************************************************************************)
\* largest --concurrency explored
MaxConcurrency == 2
\* largest number of input rows explored
MaxRows == 2

\* The name lists fetchAllDependents can return: every name once (the
\* cascade itself is the specification Spec).
DiscoveryResults ==
  {s \in SeqsUpTo(PkgNames, Cardinality(PkgNames)) :
     \A i, j \in 1..Len(s) : s[i] = s[j] => i = j}

\* faulty variant of HasSlot: the test admits one task too many (<= for <)
HasSlotInclusive(active) == active <= concurrency

\* pLimit: a task may be started while fewer than `concurrency` are active
HasSlot(active) == active < concurrency

\* lines 546-547: limit(fn) is called for the dependents k..n in order; a
\* task is started at once while there is a slot and queued otherwise
RECURSIVE Enqueue(_, _, _, _)
Enqueue(k, n, active, q) ==
  IF k > n THEN [activeCount |-> active, queue |-> q]
  ELSE IF HasSlot(active) /\ q = <<>>
       THEN Enqueue(k + 1, n, active + 1, q)
       ELSE Enqueue(k + 1, n, active, Append(q, k))

\* pLimit when a task's promise settles: its slot is given up and the head
\* of the queue, if any, is started (start: its index, 0 for none)
LimitNext(active, q) ==
  IF q # <<>> /\ HasSlot(active - 1)
  THEN [activeCount |-> active, queue |-> Tail(q), start |-> Head(q)]
  ELSE [activeCount |-> active - 1, queue |-> q, start |-> 0]

\* faulty variant of PromiseAll: the first task to finish resolves the wait
PromiseAny(t) == \E k \in DOMAIN t : t[k] = "done"

\* line 545: Promise.all over the tasks (none of them rejects)
PromiseAll(t) == \A k \in DOMAIN t : t[k] = "done"

\* faulty variant of RowsOn: the catch block emits nothing
RowsOnSuccessOnly(ok) == IF ok THEN <<"row">> ELSE <<>>

\* lines 548-620: what the task hands to onRow: the row of lines 578-597
\* when the try block runs to its end, the error row of lines 599-619 when
\* anything in it throws
RowsOn(ok) == IF ok THEN <<"row">> ELSE <<"error">>

\* lines 516-540: the target's metadata arrived or its fetch failed (caught,
\* lines 521-524); fetchAllDependents is called
TargetMetadata ==
  /\ phase = "meta"
  /\ phase' = "discover"
  /\ UNCHANGED <<concurrency, inputRows, current, dependents, task, outcome,
                 emitted, activeCount, queue, count, found, written, quiet,
                 progress, reported>>
  /\ UNCHANGED <<dvars, fvars, tvars, avars, lvars>>

\* lines 532-547: fetchAllDependents returned; every dependent's task is
\* handed to limit, which starts the first `concurrency` of them (each
\* issues its request for the dependent's metadata, line 549)
Discovered ==
  /\ phase = "discover"
  /\ \E names \in DiscoveryResults :
       LET n == Len(names)
           l == Enqueue(1, n, activeCount, queue)
           t == [k \in 1..n |-> IF Has(l.queue, k) THEN "queued" ELSE "fetch"]
       IN /\ dependents' = names
          /\ found' = [found EXCEPT ![current] = n]
          /\ task' = t
          /\ outcome' = [k \in 1..n |-> "pending"]
          /\ emitted' = [k \in 1..n |-> <<>>]
          /\ activeCount' = l.activeCount
          /\ queue' = l.queue
          /\ phase' = IF PromiseAll(t) THEN "returned" ELSE "analyse"
  /\ UNCHANGED <<concurrency, inputRows, current, count, written, quiet,
                 progress, reported>>
  /\ UNCHANGED <<dvars, fvars, tvars, avars, lvars>>

\* --progress when the option is absent (line 43), and what line 623 puts
\* for a value of 0
DefaultProgress == 25
\* the intervals explored: every dependent, and the default, which is above
\* every number of dependents here
ProgressValues == {1, DefaultProgress}

\* lines 621-623: the task of index idx = processed - 1 logs
\* "processed <processed>/<n>"
Reports(processed, n) ==
  ~quiet /\ (processed % progress = 0 \/ processed = n)

\* lines 548-626 and 662-666: the metadata of dependent k arrived and the
\* analysis ran to its end (ok), or the fetch or the analysis threw; either
\* way onRow is called, the progress line is logged if it is due, and the
\* task waits for delay(50)
DependentAnalysed(k) ==
  /\ phase = "analyse"
  /\ k \in DOMAIN task /\ task[k] = "fetch"
  /\ \E ok \in BOOLEAN :
       /\ outcome' = [outcome EXCEPT ![k] = IF ok THEN "ok" ELSE "throw"]
       /\ emitted' = [emitted EXCEPT ![k] = @ \o RowsOn(ok)]
       /\ count' = count + Len(RowsOn(ok))
       /\ written' = [written EXCEPT ![current] = @ + Len(RowsOn(ok))]
  /\ reported' = (IF Reports(k, Len(dependents)) THEN k ELSE reported)
  /\ task' = [task EXCEPT ![k] = "delay"]
  /\ UNCHANGED <<concurrency, inputRows, current, phase, dependents,
                 activeCount, queue, found, quiet, progress>>
  /\ UNCHANGED <<dvars, fvars, tvars, avars, lvars>>

\* lines 627-630: delay(50) of task k elapsed; its promise resolves, pLimit
\* starts the next queued task, and when every task is done Promise.all
\* resolves and processPackage returns
TaskFinished(k) ==
  /\ phase = "analyse"
  /\ k \in DOMAIN task /\ task[k] = "delay"
  /\ LET l == LimitNext(activeCount, queue)
         t == [j \in DOMAIN task |->
                 IF j = k THEN "done"
                 ELSE IF j = l.start THEN "fetch" ELSE task[j]]
     IN /\ task' = t
        /\ activeCount' = l.activeCount
        /\ queue' = l.queue
        /\ phase' = IF PromiseAll(t) THEN "returned" ELSE "analyse"
  /\ UNCHANGED <<concurrency, inputRows, current, dependents, outcome, emitted,
                 count, found, written, quiet, progress, reported>>
  /\ UNCHANGED <<dvars, fvars, tvars, avars, lvars>>

\* lines 668-681: processPackage returned to main's loop, which calls it
\* for the next row (its locals are new) or ends the run
NextRow ==
  /\ phase = "returned"
  /\ IF current < inputRows
     THEN current' = current + 1 /\ phase' = "meta"
     ELSE current' = current /\ phase' = "end"
  /\ dependents' = <<>> /\ task' = <<>> /\ outcome' = <<>> /\ emitted' = <<>>
  /\ reported' = 0
  /\ UNCHANGED <<concurrency, inputRows, activeCount, queue, count, found,
                 written, quiet, progress>>
  /\ UNCHANGED <<dvars, fvars, tvars, avars, lvars>>

\* lines 634-669: main has read its input and called processPackage for the
\* first row, whose request for the target's metadata is in flight; pLimit
\* accepts a concurrency of at least 1 only
RunInit ==
  /\ concurrency \in 1..MaxConcurrency
  /\ inputRows \in 0..MaxRows
  /\ current = (IF inputRows = 0 THEN 0 ELSE 1)
  /\ phase = (IF inputRows = 0 THEN "end" ELSE "meta")
  /\ dependents = <<>> /\ task = <<>> /\ outcome = <<>> /\ emitted = <<>>
  /\ activeCount = 0 /\ queue = <<>> /\ count = 0
  /\ found = [i \in 1..MaxRows |-> 0]
  /\ written = [i \in 1..MaxRows |-> 0]
  /\ reported = 0

\* main is not running
RunIdle ==
  /\ concurrency = 1 /\ inputRows = 0 /\ current = 0 /\ phase = "idle"
  /\ dependents = <<>> /\ task = <<>> /\ outcome = <<>> /\ emitted = <<>>
  /\ activeCount = 0 /\ queue = <<>> /\ count = 0
  /\ found = [i \in 1..MaxRows |-> 0]
  /\ written = [i \in 1..MaxRows |-> 0]
  /\ quiet = FALSE /\ progress = DefaultProgress /\ reported = 0

(***************************************************************************)
(* Specifications                                                          *)
(***************************************************************************)
Init ==
  DiscoveryInit /\ FetchIdle /\ TimelineIdle /\ AnalysisIdle /\ LocateIdle /\ RunIdle

Next == NpmsPage \/ LibrariesPage \/ ScrapePage

\* the discovery cascade
Spec == Init /\ [][Next]_vars

InitFetch ==
  FetchInit /\ DiscoveryIdle /\ TimelineIdle /\ AnalysisIdle /\ LocateIdle /\ RunIdle

FetchNext == FetchJSON \/ FetchText

\* one call of the fetch client
SpecFetch == InitFetch /\ [][FetchNext]_vars

\* the same, with what the event loop guarantees: every request ends (it has
\* an abort timer, lines 100-101 and 387-388) and every delay elapses
SpecFetchFair == SpecFetch /\ WF_vars(FetchNext)

InitTimeline ==
  TimelineInit /\ DiscoveryIdle /\ FetchIdle /\ AnalysisIdle /\ LocateIdle /\ RunIdle

\* one call of listVersionDatesFromTimeMap
SpecTimeline == InitTimeline /\ [][BuildTimeline]_vars

InitAnalysis ==
  AnalysisInit /\ DiscoveryIdle /\ FetchIdle /\ TimelineIdle /\ LocateIdle /\ RunIdle

\* the analysis of one dependent of one source package
SpecAnalysis == InitAnalysis /\ [][AnalyseDependent]_vars

\* the run is started with --quiet: no progress line is logged
InitRun ==
  /\ RunInit /\ quiet = TRUE /\ progress = DefaultProgress
  /\ DiscoveryIdle
  /\ FetchIdle /\ TimelineIdle /\ AnalysisIdle /\ LocateIdle

RunNext ==
  \/ TargetMetadata
  \/ Discovered
  \/ \E k \in 1..Cardinality(PkgNames) : DependentAnalysed(k)
  \/ \E k \in 1..Cardinality(PkgNames) : TaskFinished(k)
  \/ NextRow

\* the run of main over its input rows
SpecRun == InitRun /\ [][RunNext]_vars

\* the same, with what the event loop guarantees: every request ends (each
\* has an abort timer, lines 100-101) and every delay elapses, so a step that
\* can be taken is taken
SpecRunFair == SpecRun /\ WF_vars(RunNext)

\* the run is started with or without --quiet, and with --progress 1 or
\* without the option
InitProgress ==
  /\ RunInit /\ quiet \in BOOLEAN /\ progress \in ProgressValues
  /\ DiscoveryIdle
  /\ FetchIdle /\ TimelineIdle /\ AnalysisIdle /\ LocateIdle

\* the run of main with its progress lines
SpecProgress == InitProgress /\ [][RunNext]_vars

InitLocate ==
  /\ includeDev \in BOOLEAN /\ includePeer \in BOOLEAN
  /\ LocateInit /\ DiscoveryStopped
  /\ FetchIdle /\ TimelineIdle /\ AnalysisIdle /\ RunIdle

\* one call of findDependencyRange
SpecLocate == InitLocate /\ [][Locate]_vars

(***************************************************************************)
(* Properties of the discovery cascade (Spec)                              *)
(***************************************************************************)
\* C1: with a cap max > 0 the name set of fetchAllDependents never holds
\* more than max names.
C1_CapHolds == max > 0 => Len(seen) <= max

\* C2: when the primary stage alone leaves the running total at or above a
\* cap max > 0, neither fallback strategy is called and no request is issued
\* to Libraries.io or to the npm website.
C2_ShortCircuit ==
  (max > 0 /\ primaryCount >= max) =>
    /\ invoked = {}
    /\ requests["libraries"] = 0 /\ requests["scraped"] = 0
    /\ pc \notin {"libraries", "scrape"}

\* C2 witness: a run with a cap that the primary stage reached has returned.
C2_Witness == pc = "done" /\ max > 0 /\ primaryCount >= max /\ primaryCount > 0

\* the tag of the earliest stage, in cascade order, that delivered n
EarliestTag(n) ==
  IF n \in offered["npms"] THEN "npms"
  ELSE IF n \in offered["libraries"] THEN "libraries"
  ELSE IF n \in offered["scraped"] THEN "scraped"
  ELSE NoSource

C3_State ==
  /\ \A i, j \in 1..Len(seen) : seen[i] = seen[j] => i = j
  /\ \A n \in PkgNames :
       IF Has(seen, n) THEN sourceByPkg[n] = EarliestTag(n)
       ELSE sourceByPkg[n] = NoSource

C3_Step ==
  \A n \in PkgNames :
    sourceByPkg[n] # NoSource => sourceByPkg'[n] = sourceByPkg[n]

\* C3: every name is in the result at most once, its provenance is the tag
\* of the earliest stage (npms, libraries, scraped) that delivered it, and a
\* provenance once set is never changed by a later page or stage.
C3_Provenance == []C3_State /\ [][C3_Step]_vars

\* C3 witness: a returned result holds a name that two stages delivered.
C3_Witness ==
  /\ pc = "done"
  /\ \E n \in Dependents :
       /\ Has(seen, n)
       /\ n \in offered["npms"] \cap offered["scraped"]

C17_Step ==
  (pc = "libraries" /\ received'.stage = "libraries"
   /\ received'.kind = "disabled") =>
    /\ requests'["libraries"] = requests["libraries"]
    /\ pc' \in {"scrape", "done"}
    /\ pc' = "scrape" <=>
         (~noScrape /\ (Len(seen) = 0 \/ (max # 0 /\ Len(seen) < max)))
    /\ seen' = seen /\ sourceByPkg' = sourceByPkg
    /\ Len(seen) = primaryCount
    /\ \A i \in 1..Len(seen) : sourceByPkg'[seen[i]] = "npms"
    /\ stats'.npms = stats.npms /\ stats'.libraries = 0

\* C17: when Libraries.io answers with the feature-disabled body, the
\* secondary stage ends at once with no further request to it, the failure
\* stays inside fetchAllDependents, every name of the primary stage is kept
\* with its provenance npms, and the scrape stage runs exactly when it is
\* enabled and the total is empty or below the cap.
C17_DisabledStage == [][C17_Step]_vars

\* C17 witness: the disabled body came as the second secondary response,
\* the primary stage had found a name, and the scrape stage was entered.
C17_Witness ==
  /\ received = Received("libraries", "disabled", FALSE)
  /\ pc = "scrape" /\ primaryCount = 1 /\ max = 2
  /\ requests["libraries"] = 2 /\ requests["scraped"] = 1

\* C18: the secondary stage requests no further page after an empty page,
\* after a page of fewer items than the page size of 100 (every page
\* explored here is that short), or once the cap is reached.
C18_ShortPageStops ==
  [][(pc = "libraries" /\ received'.stage = "libraries"
      /\ received'.kind \in {"none", "page"}
      /\ MaxPageLen < LibrariesPerPage) =>
       (requests'["libraries"] = requests["libraries"] /\ pc' # "libraries")]_vars

\* C19: in the primary stage the pagination of a kind stops only because the
\* page held no results, the offset reached the total the source reports,
\* the number of collected names reached the cap, or the fetch failed; so
\* while fewer than max names are collected and the source reports more, the
\* next page is requested.
C19_StopReasons ==
  [][(pc = "npms" /\ received'.stage = "npms" /\ qi' # qi) =>
       \/ received'.kind = "none"
       \/ received'.kind = "throw"
       \/ received'.atTotal
       \/ max > 0 /\ Len(seen') >= max]_vars

C20_Step ==
  (pc = "npms" /\ received'.stage = "npms" /\ received'.kind = "throw") =>
    /\ seen' = seen /\ sourceByPkg' = sourceByPkg /\ stats' = stats
    /\ qi < Len(qualifiers) => (pc' = "npms" /\ qi' = qi + 1 /\ from' = 0)
    /\ qi = Len(qualifiers) => pc' \in {"libraries", "scrape", "done"}

\* C20: a failed page fetch of the primary stage ends the pagination of its
\* kind only: the names collected so far are kept with their provenance and
\* counts, the next kind, if any, is queried from offset 0, and after the
\* last kind the cascade goes on as usual.
C20_FailureEndsKindOnly == [][C20_Step]_vars

\* C20 witness: the fetch failed in the first kind after a page had given a
\* name, and the second kind is being queried from offset 0.
C20_Witness ==
  /\ received = Received("npms", "throw", FALSE)
  /\ pc = "npms" /\ qi = 2 /\ from = 0
  /\ Len(seen) = 1 /\ stats.npms = 1

\* C21: with the cap unset or zero (unlimited) the running total counts as
\* below the cap, so once the primary stage has ended the secondary stage
\* has been invoked whenever it is enabled, and once the function has
\* returned the scrape stage has been invoked whenever it is enabled, also
\* when an earlier stage found names.
C21_UnlimitedRunsEveryStage ==
  (max = 0 /\ pc \in {"libraries", "scrape", "done"}) =>
    /\ ~noLibraries => "libraries" \in invoked
    /\ (pc = "done" /\ ~noScrape) => "scraped" \in invoked

\* C23: the target package is never among the names fetchAllDependents
\* collects, whichever stage was handed the target's name in a page.
C23_TargetExcluded == ~Has(seen, name)

\* C27: the secondary stage is all-or-nothing.  When a page request of
\* fetchDependentsFromLibrariesIO fails (fetchJSON gave up after its
\* retries, by an exception or, after a 429 on the last attempt, by
\* returning undefined; or the body is the feature-disabled object) after
\* earlier pages returned names, none of those names is merged: seen is
\* unchanged, no name is tagged libraries and stats.libraries stays 0.
C27_AllOrNothing ==
  [][(pc = "libraries" /\ received'.stage = "libraries"
      /\ received'.kind \in {"throw", "undefined", "disabled"}
      /\ out # <<>>) =>
       /\ seen' = seen
       /\ \A p \in PkgNames : sourceByPkg'[p] # "libraries"
       /\ stats'.libraries = 0]_vars

(***************************************************************************)
(* Properties of the fetch client (SpecFetch)                              *)
(***************************************************************************)
\* C4: a call of fetchJSON ends by returning the body of a 2xx response or
\* by failing with an error; it never completes normally without a body.
C4_BodyOrError ==
  (fn = "fetchJSON" /\ fpc = "done") =>
    \/ fresult = "body" /\ trace[Len(trace)] = "ok"
    \/ fresult = "error"

\* C5: a 429 response uses no retry slot: the attempt number counts only the
\* connection failures and non-2xx, non-429 responses, and a call gives up
\* only after retries+1 of those, however many 429 responses came between.
C5_RateLimitKeepsSlot ==
  /\ fpc = "request" => attempt = failures
  /\ (fpc = "done" /\ fresult # "body" /\ fresult # "text") =>
       failures = retries + 1

\* C6: fetchText returns a string in every case: the text of a 2xx response
\* or, once the retries are used up, the empty string.
C6_TextAlwaysString ==
  (fn = "fetchText" /\ fpc = "done") =>
    \/ fresult = "text" /\ trace[Len(trace)] = "ok"
    \/ fresult = "empty"

\* C26: every call of fetchJSON or fetchText ends, and it has issued at most
\* retries+1 requests in total, whatever the attempts come to (a server
\* that answers every request with 429 included).
C26_BoundedRequests ==
  /\ [](Len(trace) <= retries + 1)
  /\ <>(fpc = "done")

\* C26 witness: a call that allowed retries has ended after retries+1
\* requests, each of them answered 429.
C26_Witness ==
  /\ fpc = "done" /\ retries >= 1
  /\ Len(trace) = retries + 1
  /\ \A i \in 1..Len(trace) : trace[i] = "429"

(***************************************************************************)
(* Properties of the timeline builder (SpecTimeline)                       *)
(***************************************************************************)
\* the keys of the map that name version v: neither bookkeeping key, and
\* coercing to v
KeysOf(v) ==
  {i \in 1..Len(timeMap.entries) :
     /\ timeMap.entries[i].k.word \notin {"created", "modified"}
     /\ Coerce(timeMap.entries[i].k) # Null
     /\ Coerce(timeMap.entries[i].k) = v}

\* those of them whose timestamp parses
DatedKeysOf(v) ==
  {i \in KeysOf(v) : toDateSafe(timeMap.entries[i].v).valid}

First(S) == CHOOSE i \in S : \A j \in S : i <= j

SortedByDate ==
  \A i, j \in 1..Len(versionDates) :
    i <= j => versionDates[i].date <= versionDates[j].date

UniqueVersions ==
  \A i, j \in 1..Len(versionDates) :
    versionDates[i].version = versionDates[j].version => i = j

\* C10 as stated: the timeline is sorted by date, holds each normalised
\* version once, and each entry is the entry of the first key in map order
\* that normalises to its version (so no entry stems from created, modified,
\* a key that is no version or a timestamp that does not parse).
C10_FirstKeyWins ==
  tpc = "built" =>
    /\ SortedByDate
    /\ UniqueVersions
    /\ \A n \in 1..Len(versionDates) :
         LET e == versionDates[n] IN
           /\ KeysOf(e.version) # {}
           /\ toDateSafe(timeMap.entries[First(KeysOf(e.version))].v)
                = DateOf(e.date)

\* C10 as amended: as above, but each entry is the entry of the first key in
\* map order that normalises to its version and has a timestamp that parses;
\* every version with such a key has its entry.
C10_FirstDatedKeyWins ==
  tpc = "built" =>
    /\ SortedByDate
    /\ UniqueVersions
    /\ \A n \in 1..Len(versionDates) :
         LET e == versionDates[n] IN
           /\ DatedKeysOf(e.version) # {}
           /\ toDateSafe(timeMap.entries[First(DatedKeysOf(e.version))].v)
                = DateOf(e.date)
    /\ \A i \in 1..Len(timeMap.entries) :
         LET v == Coerce(timeMap.entries[i].k) IN
           i \in DatedKeysOf(v) =>
             \E n \in 1..Len(versionDates) : versionDates[n].version = v

\* C10 witness: a built timeline of two versions, out of date order in the
\* map, one of them reached by two keys of which the first has no date.
C10_Witness ==
  /\ tpc = "built"
  /\ Len(versionDates) = 2
  /\ Len(timeMap.entries) = 3
  /\ versionDates[1].version = <<2, 0, 0>>
  /\ KeysOf(<<1, 0, 0>>) = {1, 2}
  /\ DatedKeysOf(<<1, 0, 0>>) = {2}

(***************************************************************************)
(* Properties of the per-dependent analysis (SpecAnalysis)                 *)
(***************************************************************************)
\* the string is one exact version: 1.2.3, =1.2.3 or v1.2.3
ExactVersion(r) ==
  r.word = "" /\ r.op \in {"", "=", "v"} /\ Len(r.parts) = 3 /\ r.pre = ""

\* C7: uses_exact_pin (isExactPin) is true exactly when the declared range
\* is itself a single exact version and, when a compromised version is
\* known, that version equals it; a caret range gives false.
C7_ExactPin ==
  (apc = "emitted" /\ ~row.error) =>
    LET range == row.dependent_version_range
        known == targetVersion # EmptyStr /\ Coerce(targetVersion) # Null
    IN row.uses_exact_pin <=>
         /\ range # EmptyStr
         /\ ExactVersion(range)
         /\ known => Coerce(range) = Coerce(targetVersion)

\* both strings are present, coerce to a version, and to the same one
PresentAndEqual(resolved, compromised) ==
  /\ resolved # EmptyStr /\ compromised # EmptyStr
  /\ Coerce(resolved) # Null /\ Coerce(compromised) # Null
  /\ Coerce(resolved) = Coerce(compromised)

\* C8: in every emitted row each impact flag is true exactly when the row's
\* resolved version and the compromised version are both present and equal
\* after coercion; both flags are false in an error row.
C8_ImpactFlags ==
  apc = "emitted" =>
    /\ row.likely_impacted_at_release <=>
         PresentAndEqual(row.resolved_at_dependent_release, row.source_version)
    /\ row.still_impacted_now <=>
         PresentAndEqual(row.resolved_now, row.source_version)
    /\ row.error =>
         ~row.likely_impacted_at_release /\ ~row.still_impacted_now

\* C8 witness: a row flagged at release and not now, for a compromised
\* version that equals the resolved one only after coercion.
C8_Witness ==
  /\ apc = "emitted" /\ ~row.error
  /\ row.likely_impacted_at_release /\ ~row.still_impacted_now
  /\ row.source_version.pre = "beta"
  /\ row.resolved_now # EmptyStr

\* the range admits the version
Admits(v, r) == ValidRange(r) /\ Test(v, r)

\* the versions of the target's timeline that the range admits, published
\* at or before the cutoff (all of them when there is no cutoff to apply)
Qualifying(dated) ==
  IF input.range = EmptyStr \/ (dated /\ ~toDateSafe(input.time).valid)
  THEN {}
  ELSE {targetVersionDates[n].version :
          n \in {m \in 1..Len(targetVersionDates) :
                   /\ dated => targetVersionDates[m].date <= toDateSafe(input.time).time
                   /\ Admits(targetVersionDates[m].version, input.range)}}

\* r is the greatest version of S, null when S is empty
GreatestOf(r, S) ==
  IF S = {} THEN r = Null
  ELSE r \in S /\ \A q \in S : Compare(q, r) <= 0

\* the timeline of section 8: (1.0.0, t1), (1.1.0, t2), (2.0.0, t3)
ExampleTimeline ==
  <<[version |-> <<1, 0, 0>>, date |-> 1],
    [version |-> <<1, 1, 0>>, date |-> 2],
    [version |-> <<2, 0, 0>>, date |-> 3]>>

\* C9: maxSatisfyingAtOrBefore returns the greatest version among the
\* timeline entries dated at or before the cutoff that satisfy the range,
\* null when none qualifies or the range or the cutoff is missing;
\* maxSatisfyingNow returns the same without the date filter.  For the
\* example timeline and ^1.0.0: 1.1.0 at cutoff t2, null before t1, 1.1.0 now.
C9_Resolver ==
  (apc = "emitted" /\ input.fetched) =>
    /\ GreatestOf(resolvedAtRelease, Qualifying(TRUE))
    /\ GreatestOf(resolvedNow, Qualifying(FALSE))
    /\ (targetVersionDates = ExampleTimeline
        /\ input.range = Str("", "^", <<1, 0, 0>>, "")) =>
         /\ input.time = Iso(2) => resolvedAtRelease = <<1, 1, 0>>
         /\ input.time = Iso(0) => resolvedAtRelease = Null
         /\ resolvedNow = <<1, 1, 0>>

\* C9 witness: the example timeline resolved under ^1.0.0 at cutoff t2.
C9_Witness ==
  /\ apc = "emitted" /\ input.fetched
  /\ targetVersionDates = ExampleTimeline
  /\ input.range = Str("", "^", <<1, 0, 0>>, "")
  /\ input.time = Iso(2)
  /\ resolvedAtRelease = <<1, 1, 0>> /\ resolvedNow = <<1, 1, 0>>

\* C24: in every success row with a non-empty resolved_at_dependent_release,
\* resolved_now is non-empty too and is a version greater than or equal to
\* it: the versions published up to the dependent's release are among all
\* the versions, and the range is the same.
C24_NowNotOlder ==
  (apc = "emitted" /\ ~row.error
   /\ row.resolved_at_dependent_release # EmptyStr) =>
    /\ row.resolved_now # EmptyStr
    /\ Compare(Coerce(row.resolved_now),
               Coerce(row.resolved_at_dependent_release)) >= 0

\* C24 witness: a success row whose range resolved to one version at the
\* dependent's release and to a greater one now.
C24_Witness ==
  /\ apc = "emitted" /\ ~row.error
  /\ row.resolved_at_dependent_release = Plain(<<1, 0, 0>>)
  /\ row.resolved_now = Plain(<<1, 1, 0>>)

\* C25: in every emitted row, if likely_impacted_at_release or
\* still_impacted_now is true then source_version_satisfies is true: a
\* dependent is flagged only when its range admits the compromised version.
C25_ImpactImpliesSatisfies ==
  (apc = "emitted"
   /\ (row.likely_impacted_at_release \/ row.still_impacted_now)) =>
    row.source_version_satisfies

\* C25 witness: a row flagged now but not at release, for a compromised
\* version the input writes as a prerelease, with a caret range.
C25_Witness ==
  /\ apc = "emitted" /\ ~row.error
  /\ row.still_impacted_now /\ ~row.likely_impacted_at_release
  /\ row.source_version.pre = "beta"
  /\ row.dependent_version_range.op = "^"
  /\ row.source_version_satisfies

(***************************************************************************)
(* Properties of the run (SpecRun, SpecRunFair)                            *)
(***************************************************************************)
\* the dependents of the row in work
Tasks == 1..Cardinality(PkgNames)

C11_State ==
  /\ \A k \in DOMAIN emitted : Len(emitted[k]) <= 1
  /\ phase = "returned" =>
       /\ DOMAIN emitted = 1..Len(dependents)
       /\ \A k \in 1..Len(dependents) :
            /\ Len(emitted[k]) = 1
            /\ emitted[k][1] = "error" <=> outcome[k] = "throw"
       /\ written[current] = Len(dependents)
  /\ phase = "end" => \A i \in 1..inputRows : written[i] = found[i]

C11_Step ==
  /\ count' >= count
  /\ phase = "analyse" =>
       \A k \in DOMAIN emitted :
         /\ k \in DOMAIN emitted'
         /\ Len(emitted'[k]) >= Len(emitted[k])
         /\ SubSeq(emitted'[k], 1, Len(emitted[k])) = emitted[k]

\* C11: when processPackage has completed, onRow was called exactly once
\* for every discovered dependent, with an error row exactly for the
\* dependents whose fetch or analysis failed; a row once emitted stays, and
\* no task's failure takes away or holds back the row of another.
C11_OneRowEach == []C11_State /\ [][C11_Step]_vars

\* C11 witness: processPackage completed for three dependents, of which one
\* failed and two succeeded.
C11_Witness ==
  /\ phase = "returned" /\ Len(dependents) = 3
  /\ outcome[2] = "throw" /\ outcome[1] = "ok" /\ outcome[3] = "ok"
  /\ emitted[2] = <<"error">> /\ emitted[1] = <<"row">>

\* the tasks that have started and not finished, the pacing delay included
InFlight == {k \in DOMAIN task : task[k] \in {"fetch", "delay"}}

Queued(k) == k \in DOMAIN task /\ task[k] = "queued"

Started(k) == k \in DOMAIN task /\ task[k] # "queued"

C12_Step ==
  \A k \in Tasks :
    (Queued(k) /\ Started(k)') => \E j \in InFlight : task'[j] = "done"

\* C12: at every moment at most `concurrency` tasks have started and not
\* finished (pacing delay included); a queued task starts only in a step in
\* which a task in flight finishes; and every queued task eventually starts.
C12_BoundedPool ==
  /\ [](Cardinality(InFlight) <= concurrency)
  /\ [][C12_Step]_vars
  /\ \A k \in Tasks : Queued(k) ~> Started(k)

\* C12 witness: with concurrency 2 and three dependents the pool is full
\* again after the first task has finished and the queued one has started.
C12_Witness ==
  /\ concurrency = 2 /\ Len(dependents) = 3
  /\ \E k \in DOMAIN task : task[k] = "done"
  /\ Started(3) /\ Cardinality(InFlight) = 2

C16_State ==
  /\ phase \in {"meta", "discover"} =>
       /\ InFlight = {} /\ activeCount = 0
       /\ written[current] = 0
       /\ \A j \in 1..(current - 1) : written[j] = found[j]
  /\ \A j \in (current + 1)..MaxRows : written[j] = 0 /\ found[j] = 0

C16_Step ==
  /\ count' # count => phase = "analyse"
  /\ \A k \in Tasks : (~Started(k) /\ Started(k)') => phase \in {"discover", "analyse"}
  /\ current' # current => (current' = current + 1 /\ InFlight = {} /\ queue = <<>>)

\* C16: for each input row no dependent's metadata is requested and no row
\* is emitted before fetchAllDependents has returned for that row, and the
\* rows are processed one after another: when processPackage starts for row
\* i+1, every row of the rows 1..i has been written and no task is running.
C16_PhaseOrder == []C16_State /\ [][C16_Step]_vars

\* C16 witness: discovery of the second input row is under way after the
\* three rows of the first one were written.
C16_Witness ==
  /\ phase = "discover" /\ current = 2
  /\ found[1] = 3 /\ written[1] = 3 /\ count = 3

\* C22: progress is reported per completions.  When "processed k/N" has been
\* logged for the source package in work, at least k rows of its dependents
\* have been emitted, and "processed N/N" is logged only when all N rows
\* have been emitted, under any concurrency and order of completion.
C22_ProgressCountsCompletions ==
  (phase \in {"analyse", "returned"} /\ reported # 0) =>
    /\ written[current] >= reported
    /\ reported = Len(dependents) => written[current] = Len(dependents)

(***************************************************************************)
(* Properties of findDependencyRange (SpecLocate)                          *)
(***************************************************************************)
KindNames == <<"dependencies", "peerDependencies", "devDependencies">>
TypeOf == [dependencies |-> "dep", peerDependencies |-> "peer",
           devDependencies |-> "dev"]

\* the kinds findDependencyRange is asked to look at
Enabled(kind) ==
  \/ kind = "dependencies"
  \/ kind = "peerDependencies" /\ includePeer
  \/ kind = "devDependencies" /\ includeDev

\* the enabled kinds under which the manifest declares the target, by index
DeclaringKinds(man) ==
  {n \in 1..3 : Enabled(KindNames[n]) /\ man[KindNames[n]].has}

Declares(man) == DeclaringKinds(man) # {}

\* the highest-priority one of them: dep before peer before dev
TopKind(man) == KindNames[First(DeclaringKinds(man))]

\* the result carries the declaration of version v
Carries(d, entry) ==
  /\ d.range = entry.man[TopKind(entry.man)]
  /\ d.dependencyType = TypeOf[TopKind(entry.man)]
  /\ d.matchedVersion = entry.v

\* the entries of the manifest that dist-tags.latest names
LatestEntries ==
  {i \in 1..Len(pkgMeta.versions) :
     pkgMeta.latest # EmptyStr /\ pkgMeta.versions[i].v = pkgMeta.latest}

\* C13: whenever the manifest tagged latest declares the target under an
\* enabled kind, the result carries the range and kind of the
\* highest-priority enabled kind declared there (dep, then peer, then dev)
\* and matchedVersion is the latest tag, whatever other versions declare.
C13_LatestFirst ==
  lpc = "returned" =>
    \A i \in LatestEntries :
      Declares(pkgMeta.versions[i].man) =>
        Carries(declaration, pkgMeta.versions[i])

\* semantic-version precedence of two version strings: by the numeric parts,
\* and a prerelease before its release
Precedence(a, b) ==
  IF Compare(Coerce(a), Coerce(b)) # 0 THEN Compare(Coerce(a), Coerce(b))
  ELSE IF a.pre = b.pre THEN 0
  ELSE IF a.pre = "" THEN 1
  ELSE IF b.pre = "" THEN -1
  ELSE 0

\* the versions whose manifest declares the target under an enabled kind
DeclaringVersions ==
  {i \in 1..Len(pkgMeta.versions) : Declares(pkgMeta.versions[i].man)}

\* C14: when the latest manifest does not declare the target under an
\* enabled kind, the result is the declaration of the version of highest
\* semantic-version precedence among those that declare it, with the same
\* dep > peer > dev priority inside that version.
C14_NewestDeclaring ==
  (/\ lpc = "returned"
   /\ \A i \in LatestEntries : ~Declares(pkgMeta.versions[i].man)
   /\ DeclaringVersions # {}) =>
    \E i \in DeclaringVersions :
      /\ \A j \in DeclaringVersions :
           Precedence(pkgMeta.versions[i].v, pkgMeta.versions[j].v) >= 0
      /\ Carries(declaration, pkgMeta.versions[i])

\* C15: dependencyType is dep, peer, dev or null; peer only with
\* includePeer and dev only with includeDev; isDev exactly for dev; range
\* and dependencyType are both null, with an empty matchedVersion, exactly
\* when no version's manifest declares the target under an enabled kind.
C15_ResultShape ==
  lpc = "returned" =>
    /\ declaration.dependencyType \in {"dep", "peer", "dev", "null"}
    /\ declaration.dependencyType = "peer" => includePeer
    /\ declaration.dependencyType = "dev" => includeDev
    /\ declaration.isDev <=> declaration.dependencyType = "dev"
    /\ declaration.range = NotDeclared <=> declaration.dependencyType = "null"
    /\ declaration.dependencyType = "null" => declaration.matchedVersion = EmptyStr
    /\ declaration.dependencyType = "null" <=> DeclaringVersions = {}
====
